---- MODULE Spec2Model ----
(***************************************************************************)
(* task-tracker (main.go): a JSON-file backed task repository and the      *)
(* command dispatcher in front of it.                                      *)
(*                                                                         *)
(* Spec    : one JsonTaskRepository object used for any sequence of        *)
(*           repository operations (a fresh object may be constructed on   *)
(*           the same file at any time).                                   *)
(* SpecCLI : invocations of main(): construct, dispatch one command, exit. *)
(* SpecLong: the repository object on lists of up to LongLen tasks.        *)
(* SpecRace: two invocations of main() interleaving on one file.           *)
(* SpecSeq : whole invocations in sequence beside one in-memory list.      *)
(***************************************************************************)
EXTENDS Integers, Sequences, FiniteSets, TLC

\* ---------------------------------------------------------------- bounds
MaxLen == 2      \* Add is not offered once the list holds MaxLen tasks
MaxClock == 1    \* time.Now() readings range over 0..MaxClock

\* ------------------------------------------------------------ input sets
\* Description operands.  InvalidUtf8 stands for a byte string that is not
\* valid UTF-8 (argv is raw bytes); Coerced is the same string with the
\* offending byte replaced by U+FFFD, which is what encoding/json writes.
ValidDesc == "buy milk"
InvalidUtf8 == "caf<E9>"
Coerced == "caf<FFFD>"
Descriptions == {ValidDesc, InvalidUtf8}

Statuses == {"todo", "in-progress", "done"}

\* ids offered to Update/Delete/Mark*: every id a list can hold (Add assigns
\* at most MaxLen), and 0, which no task carries
Ids == 0 .. MaxLen

\* outcomes of os.WriteFile: written; the open fails (content untouched);
\* the open truncates and the write then fails (content no longer JSON)
WriteOutcomes == {"ok", "open-fails", "write-fails"}
\* outcomes of os.ReadFile on a path: readable, or an error other than
\* "does not exist"
ReadOutcomes == {"ok", "denied"}

\* ------------------------------------------------------------ data model
Task(id, d, s, c, u) ==
  [id |-> id, description |-> d, status |-> s, createdAt |-> c, updatedAt |-> u]

\* a Go slice of Task: nil, or a (possibly empty) run of tasks
NilSlice == [isNil |-> TRUE, items |-> << >>]
Slice(items) == [isNil |-> FALSE, items |-> items]

\* what is at the path tasks.json
Absent == [kind |-> "absent", items |-> << >>]
Garbage == [kind |-> "garbage", items |-> << >>]
JsonNull == [kind |-> "null", items |-> << >>]
JsonArray(items) == [kind |-> "array", items |-> items]

VARIABLES
  file,    \* content of tasks.json
  clock,   \* the latest time.Now() reading
  tasks,   \* Spec: r.tasks of the repository object
  repo,    \* Spec: "none", "ready", "failed", "errored", "panicked"
  last,    \* Spec: the operation that produced this state
  proc     \* SpecCLI: the state of each invocation of main()

vars == <<file, clock, tasks, repo, last, proc>>

\* ----------------------------------------------------- encoding/json, os
\* a string as json.Marshal writes it: coerced to valid UTF-8
ToValidUTF8(s) == IF s = InvalidUtf8 THEN Coerced ELSE s

MarshalTask(t) == [t EXCEPT !.description = ToValidUTF8(t.description)]

\* json.Marshal(r.tasks): a nil slice encodes as null, any other as an array
Marshal(s) ==
  IF s.isNil THEN JsonNull
  ELSE JsonArray([i \in DOMAIN s.items |-> MarshalTask(s.items[i])])

\* json.Unmarshal(data, &r.tasks) with r.tasks nil before the call
Unmarshal(data) ==
  CASE data.kind = "null" -> [err |-> FALSE, tasks |-> NilSlice]
    [] data.kind = "array" -> [err |-> FALSE, tasks |-> Slice(data.items)]
    [] OTHER -> [err |-> TRUE, tasks |-> NilSlice]

\* os.ReadFile: err is "notexist", "other" or "none"
ReadFile(f, rd) ==
  IF rd = "denied" THEN [err |-> "other", data |-> Garbage]
  ELSE IF f.kind = "absent" THEN [err |-> "notexist", data |-> Garbage]
  ELSE [err |-> "none", data |-> f]

\* os.WriteFile(name, data, 0644)
WriteFile(f, data, w) ==
  CASE w = "ok" -> [err |-> FALSE, file |-> data]
    [] w = "open-fails" -> [err |-> TRUE, file |-> f]
    [] OTHER -> [err |-> TRUE, file |-> Garbage]

\* ------------------------------------------------------------ repository
\* load that takes every read error for a missing file
loadAnyErrorIsAbsent(f, rd, w) ==
  LET r == ReadFile(f, rd) IN
  IF r.err # "none"
  THEN LET wr == WriteFile(f, Marshal(Slice(<< >>)), w)
       IN [err |-> wr.err, tasks |-> NilSlice, file |-> wr.file,
           read |-> TRUE, wrote |-> TRUE]
  ELSE LET u == Unmarshal(r.data)
       IN [err |-> u.err, tasks |-> u.tasks, file |-> f,
           read |-> TRUE, wrote |-> FALSE]

\* load that never reads what the file holds
loadIgnoresContent(f, rd, w) ==
  LET r == ReadFile(f, rd) IN
  IF r.err = "notexist"
  THEN LET wr == WriteFile(f, Marshal(Slice(<< >>)), w)
       IN [err |-> wr.err, tasks |-> NilSlice, file |-> wr.file,
           read |-> TRUE, wrote |-> TRUE]
  ELSE [err |-> Unmarshal(r.data).err, tasks |-> NilSlice, file |-> f,
        read |-> TRUE, wrote |-> FALSE]

load(f, rd, w) ==
  LET r == ReadFile(f, rd) IN
  IF r.err = "notexist"
  THEN LET wr == WriteFile(f, Marshal(Slice(<< >>)), w)
       IN [err |-> wr.err, tasks |-> NilSlice, file |-> wr.file,
           read |-> TRUE, wrote |-> TRUE]
  ELSE LET u == Unmarshal(r.data)
       IN [err |-> u.err, tasks |-> u.tasks, file |-> f,
           read |-> TRUE, wrote |-> FALSE]

newJsonTaskRepository(f, rd, w) == load(f, rd, w)

save(s, f, w) == WriteFile(f, Marshal(s), w)

\* nondecreasing runs of k clock readings, none before c
NowSeqs(c, k) ==
  {s \in [1..k -> c..MaxClock] : \A i \in 1..(k-1) : s[i] <= s[i+1]}

\* the indices of the tasks carrying id, and the rank of i among them
Matches(items, id) == {i \in DOMAIN items : items[i].id = id}
Rank(M, i) == Cardinality({j \in M : j <= i})
LatestReading(c, nows) == IF Len(nows) = 0 THEN c ELSE nows[Len(nows)]

\* List that pays no attention to the filter
ListIgnoresFilter(s, status) == s

List(s, status) ==
  IF status # ""
  THEN LET filteredTasks == SelectSeq(s.items, LAMBDA t : t.status = status)
       IN IF Len(filteredTasks) = 0 THEN NilSlice ELSE Slice(filteredTasks)
  ELSE s

\* Add with the two clock readings stored the wrong way round
AddStampsSwapped(s, f, description, t1, t2, w) ==
  LET task == Task(Len(s.items) + 1, description, "todo", t2, t1)
      appended == Slice(Append(s.items, task))
      sv == save(appended, f, w)
  IN [tasks |-> appended, file |-> sv.file, err |-> sv.err, panic |-> FALSE,
      ret |-> Slice(<<task>>)]

\* Add with the id one past the largest id in the list
AddIdAfterLargest(s, f, description, t1, t2, w) ==
  LET used == {s.items[i].id : i \in DOMAIN s.items} \cup {0}
      largest == CHOOSE m \in used : \A n \in used : n <= m
      task == Task(largest + 1, description, "todo", t1, t2)
      appended == Slice(Append(s.items, task))
      sv == save(appended, f, w)
  IN [tasks |-> appended, file |-> sv.file, err |-> sv.err, panic |-> FALSE,
      ret |-> Slice(<<task>>)]

\* Add with the id taken from the count alone, without the + 1
AddIdFromCount(s, f, description, t1, t2, w) ==
  LET task == Task(Len(s.items), description, "todo", t1, t2)
      appended == Slice(Append(s.items, task))
      sv == save(appended, f, w)
  IN [tasks |-> appended, file |-> sv.file, err |-> sv.err, panic |-> FALSE,
      ret |-> Slice(<<task>>)]

Add(s, f, description, t1, t2, w) ==
  LET task == Task(Len(s.items) + 1, description, "todo", t1, t2)
      appended == Slice(Append(s.items, task))
      sv == save(appended, f, w)
  IN [tasks |-> appended, file |-> sv.file, err |-> sv.err, panic |-> FALSE,
      ret |-> Slice(<<task>>)]

\* the loop of Update storing its clock reading in createdAt as well
UpdateLoopRestamps(s, id, description, nows) ==
  LET M == Matches(s.items, id)
  IN [s EXCEPT !.items = [i \in DOMAIN s.items |->
        IF i \in M
        THEN [s.items[i] EXCEPT !.description = description,
                                !.createdAt = nows[Rank(M, i)],
                                !.updatedAt = nows[Rank(M, i)]]
        ELSE s.items[i]]]

\* the loop of Update: every task carrying id is rewritten, each with its
\* own clock reading
UpdateLoop(s, id, description, nows) ==
  LET M == Matches(s.items, id)
  IN [s EXCEPT !.items = [i \in DOMAIN s.items |->
        IF i \in M
        THEN [s.items[i] EXCEPT !.description = description,
                                !.updatedAt = nows[Rank(M, i)]]
        ELSE s.items[i]]]

Update(s, f, id, description, nows, w) ==
  LET t == UpdateLoop(s, id, description, nows)
      sv == save(t, f, w)
  IN [tasks |-> t, file |-> sv.file, err |-> sv.err, panic |-> FALSE,
      ret |-> NilSlice]

\* the loop of MarkInProgress and MarkDone marking only tasks still todo
MarkLoopFromTodoOnly(s, id, status, nows) ==
  LET M == Matches(s.items, id)
  IN [s EXCEPT !.items = [i \in DOMAIN s.items |->
        IF i \in M /\ s.items[i].status = "todo"
        THEN [s.items[i] EXCEPT !.status = status,
                                !.updatedAt = nows[Rank(M, i)]]
        ELSE s.items[i]]]

\* the loop of MarkInProgress and MarkDone
MarkLoop(s, id, status, nows) ==
  LET M == Matches(s.items, id)
  IN [s EXCEPT !.items = [i \in DOMAIN s.items |->
        IF i \in M
        THEN [s.items[i] EXCEPT !.status = status,
                                !.updatedAt = nows[Rank(M, i)]]
        ELSE s.items[i]]]

MarkInProgress(s, f, id, nows, w) ==
  LET t == MarkLoop(s, id, "in-progress", nows)
      sv == save(t, f, w)
  IN [tasks |-> t, file |-> sv.file, err |-> sv.err, panic |-> FALSE,
      ret |-> NilSlice]

MarkDone(s, f, id, nows, w) ==
  LET t == MarkLoop(s, id, "done", nows)
      sv == save(t, f, w)
  IN [tasks |-> t, file |-> sv.file, err |-> sv.err, panic |-> FALSE,
      ret |-> NilSlice]

\* append(r.tasks[:i], r.tasks[i+1:]...) on the backing array arr, of which
\* the first n elements are r.tasks; i is the 1-based position of the match.
\* The tail moves one place to the left in place; arr[n] keeps its old value.
RemoveAt(arr, n, i) ==
  [k \in DOMAIN arr |-> IF k >= i /\ k < n THEN arr[k + 1] ELSE arr[k]]

\* The loop of Delete.  range evaluates r.tasks once: the loop visits the
\* positions 1..Len(arr) of the backing array whatever r.tasks has become,
\* and reads each element when it gets there.  n is len(r.tasks) now.
\* r.tasks[i+1:] panics (slice bounds out of range) once the match is at a
\* position past the current length.
RECURSIVE DeleteLoop(_, _, _, _, _)
DeleteLoop(arr, n, isNil, i, id) ==
  IF i > Len(arr)
  THEN [panic |-> FALSE, tasks |-> [isNil |-> isNil, items |-> SubSeq(arr, 1, n)]]
  ELSE IF arr[i].id = id
  THEN IF i > n
       THEN [panic |-> TRUE, tasks |-> [isNil |-> isNil, items |-> SubSeq(arr, 1, n)]]
       ELSE DeleteLoop(RemoveAt(arr, n, i), n - 1, FALSE, i + 1, id)
  ELSE DeleteLoop(arr, n, isNil, i + 1, id)

Delete(s, f, id, w) ==
  LET d == DeleteLoop(s.items, Len(s.items), s.isNil, 1, id)
      sv == save(d.tasks, f, w)
  IN IF d.panic
     THEN [tasks |-> d.tasks, file |-> f, err |-> FALSE, panic |-> TRUE,
           ret |-> NilSlice]
     ELSE [tasks |-> d.tasks, file |-> sv.file, err |-> sv.err, panic |-> FALSE,
           ret |-> NilSlice]

\* ------------------------------------------- Spec: one repository object
\* last: the call that produced this state.  hits is the number of tasks
\* that carried the id operand when the call began; nAdds counts the Add
\* calls made on an object constructed empty while no other operation has
\* been called on it (onlyAdds); ret is what Add or List returned.
NoOp == [op |-> "none", err |-> FALSE, panic |-> FALSE, hits |-> 0,
         nAdds |-> 0, onlyAdds |-> FALSE, ret |-> NilSlice]

Init ==
  /\ file \in {Absent, JsonArray(<< >>)}
  /\ clock = 0
  /\ tasks = NilSlice
  /\ repo = "none"
  /\ last = NoOp
  /\ proc = << >>

\* The state a call leaves behind.  A panic ends the process; after an error
\* the caller makes no further call on the object (main exits, lines 173-176).
Outcome(r) ==
  /\ tasks' = r.tasks
  /\ file' = r.file
  /\ repo' = IF r.panic THEN "panicked" ELSE IF r.err THEN "errored" ELSE "ready"

Called(op, id, r) ==
  last' = [NoOp EXCEPT !.op = op, !.err = r.err, !.panic = r.panic,
                       !.hits = Cardinality(Matches(tasks.items, id))]

NewRepo(rd, w) ==
  LET r == newJsonTaskRepository(file, rd, w) IN
  /\ tasks' = r.tasks
  /\ file' = r.file
  /\ repo' = IF r.err THEN "failed" ELSE "ready"
  /\ last' = [NoOp EXCEPT !.op = "New", !.err = r.err,
                          !.onlyAdds = (~r.err /\ Len(r.tasks.items) = 0)]
  /\ UNCHANGED <<clock, proc>>

OpAdd(description, t1, t2, w) ==
  /\ repo = "ready"
  /\ Len(tasks.items) < MaxLen
  /\ LET r == Add(tasks, file, description, t1, t2, w) IN
     /\ Outcome(r)
     /\ last' = [NoOp EXCEPT !.op = "Add", !.err = r.err, !.ret = r.ret,
                             !.nAdds = IF last.onlyAdds THEN last.nAdds + 1 ELSE 0,
                             !.onlyAdds = last.onlyAdds]
  /\ clock' = t2
  /\ UNCHANGED proc

OpUpdate(id, description, nows, w) ==
  /\ repo = "ready"
  /\ LET r == Update(tasks, file, id, description, nows, w) IN
     Outcome(r) /\ Called("Update", id, r)
  /\ clock' = LatestReading(clock, nows)
  /\ UNCHANGED proc

OpDelete(id, w) ==
  /\ repo = "ready"
  /\ LET r == Delete(tasks, file, id, w) IN
     Outcome(r) /\ Called("Delete", id, r)
  /\ UNCHANGED <<clock, proc>>

OpMarkInProgress(id, nows, w) ==
  /\ repo = "ready"
  /\ LET r == MarkInProgress(tasks, file, id, nows, w) IN
     Outcome(r) /\ Called("MarkInProgress", id, r)
  /\ clock' = LatestReading(clock, nows)
  /\ UNCHANGED proc

OpMarkDone(id, nows, w) ==
  /\ repo = "ready"
  /\ LET r == MarkDone(tasks, file, id, nows, w) IN
     Outcome(r) /\ Called("MarkDone", id, r)
  /\ clock' = LatestReading(clock, nows)
  /\ UNCHANGED proc

OpList(status) ==
  /\ repo = "ready"
  /\ last' = [NoOp EXCEPT !.op = "List", !.ret = List(tasks, status)]
  /\ UNCHANGED <<file, clock, tasks, repo, proc>>

Next ==
  \/ \E rd \in ReadOutcomes, w \in WriteOutcomes : NewRepo(rd, w)
  \/ \E d \in Descriptions, t1 \in clock..MaxClock, w \in WriteOutcomes :
       \E t2 \in t1..MaxClock : OpAdd(d, t1, t2, w)
  \/ \E id \in Ids, d \in Descriptions, w \in WriteOutcomes :
       \E nows \in NowSeqs(clock, Cardinality(Matches(tasks.items, id))) :
         OpUpdate(id, d, nows, w)
  \/ \E id \in Ids, w \in WriteOutcomes : OpDelete(id, w)
  \/ \E id \in Ids, w \in WriteOutcomes :
       \E nows \in NowSeqs(clock, Cardinality(Matches(tasks.items, id))) :
         OpMarkInProgress(id, nows, w)
  \/ \E id \in Ids, w \in WriteOutcomes :
       \E nows \in NowSeqs(clock, Cardinality(Matches(tasks.items, id))) :
         OpMarkDone(id, nows, w)
  \/ \E st \in Statuses \cup {""} : OpList(st)

Spec == Init /\ [][Next]_vars

\* ------------------------------------ SpecLong: lists of up to LongLen
\* The repository object with lists one task longer than in Spec, on one
\* description and with every write succeeding: construction, Add, Delete
\* and MarkDone.
LongLen == 3

LongIds == 1 .. LongLen

OpAddLong(description, t1, t2, w) ==
  /\ repo = "ready"
  /\ Len(tasks.items) < LongLen
  /\ LET r == Add(tasks, file, description, t1, t2, w) IN
     /\ Outcome(r)
     /\ last' = [NoOp EXCEPT !.op = "Add", !.err = r.err, !.ret = r.ret,
                             !.nAdds = IF last.onlyAdds THEN last.nAdds + 1 ELSE 0,
                             !.onlyAdds = last.onlyAdds]
  /\ clock' = t2
  /\ UNCHANGED proc

NextLong ==
  \/ NewRepo("ok", "ok")
  \/ \E t1 \in clock..MaxClock : \E t2 \in t1..MaxClock :
       OpAddLong(ValidDesc, t1, t2, "ok")
  \/ \E id \in LongIds : OpDelete(id, "ok")
  \/ \E id \in LongIds :
       \E nows \in NowSeqs(clock, Cardinality(Matches(tasks.items, id))) :
         OpMarkDone(id, nows, "ok")

SpecLong == Init /\ [][NextLong]_vars

\* ------------------------------------------------- SpecCLI: main() runs
\* An invocation is a process p.  err is the error main ends with ("" for
\* nil); out is what was printed on standard output; called is the
\* repository operation the handler invoked ("" for none); read and wrote
\* tell whether the process called os.ReadFile / os.WriteFile; overlapped
\* tells whether another process has called os.WriteFile on the path since
\* this one loaded it.
Procs == {"p1"}

Commands == {"add", "update", "delete", "mark-in-progress", "mark-done", "list"}

\* an operand that is no decimal number
NotANumber == "abc"

IdTokens == {ToString(n) : n \in Ids} \cup {NotANumber}

\* strconv.Atoi on the operands offered: the decimal tokens parse, the rest
\* do not
Atoi(tok) ==
  IF \E n \in Ids : ToString(n) = tok
  THEN [err |-> FALSE, val |-> CHOOSE n \in Ids : ToString(n) = tok]
  ELSE [err |-> TRUE, val |-> 0]

\* os.Args[1:] as offered: no command at all, an unknown command,
\* and every command with too few, the right number of, and too many operands
Argvs ==
  {<< >>, <<"bogus">>, <<"bogus", "1">>}
  \cup {<<c>> : c \in Commands}
  \cup {<<"add", d>> : d \in Descriptions}
  \cup {<<"add", ValidDesc, ValidDesc>>}
  \cup {<<"update", "1">>, <<"update", "1", ValidDesc, ValidDesc>>}
  \cup {<<"update", t, d>> : t \in IdTokens, d \in Descriptions}
  \cup {<<c, t>> : c \in {"delete", "mark-in-progress", "mark-done"}, t \in IdTokens}
  \cup {<<c, "1", "2">> : c \in {"delete", "mark-in-progress", "mark-done"}}
  \cup {<<"list", st>> : st \in Statuses \cup {"bogus"}}
  \cup {<<"list", "todo", "done">>}

Idle == [pc |-> "idle", tasks |-> NilSlice, exit |-> 0,
         err |-> "", out |-> << >>, called |-> "", read |-> FALSE,
         wrote |-> FALSE, overlapped |-> FALSE]

UsageLine == [line |-> "usage", id |-> 0, description |-> "", status |-> ""]
AddedLine(id) == [line |-> "added", id |-> id, description |-> "", status |-> ""]
TaskLine(t) ==
  [line |-> "task", id |-> t.id, description |-> t.description, status |-> t.status]

printUsage == <<UsageLine>>

\* what a handler hands back to main: the error it returns, the repository
\* state it leaves, what it printed, and the repository call it made
Returned(err, s, f, out, called, didWrite, panic) ==
  [err |-> err, tasks |-> s, file |-> f, out |-> out, called |-> called,
   wrote |-> didWrite, panic |-> panic, exit1 |-> FALSE]

\* the handlers; an error of the repository is passed on as "io"
IoErr(r) == IF r.err THEN "io" ELSE ""

add(args, s, f, nows, w) ==
  IF Len(args) # 1
  THEN Returned("help: task-tracker add", s, f, << >>, "", FALSE, FALSE)
  ELSE LET r == Add(s, f, args[1], nows[1], nows[2], w) IN
       Returned(IoErr(r), r.tasks, r.file,
                IF r.err THEN << >> ELSE <<AddedLine(r.ret.items[1].id)>>,
                "Add", TRUE, FALSE)

update(args, s, f, nows, w) ==
  IF Len(args) # 2
  THEN Returned("help: task-tracker update", s, f, << >>, "", FALSE, FALSE)
  ELSE IF Atoi(args[1]).err
  THEN Returned("invalid id", s, f, << >>, "", FALSE, FALSE)
  ELSE LET r == Update(s, f, Atoi(args[1]).val, args[2], nows, w) IN
       Returned(IoErr(r), r.tasks, r.file, << >>, "Update", TRUE, FALSE)

\* delete that rejects only a missing operand
deleteTakesFirstOperand(args, s, f, nows, w) ==
  IF Len(args) < 1
  THEN Returned("help: task-tracker delete", s, f, << >>, "", FALSE, FALSE)
  ELSE IF Atoi(args[1]).err
  THEN Returned("invalid id", s, f, << >>, "", FALSE, FALSE)
  ELSE LET r == Delete(s, f, Atoi(args[1]).val, w) IN
       Returned(IoErr(r), r.tasks, r.file, << >>, "Delete", ~r.panic, r.panic)

delete(args, s, f, nows, w) ==
  IF Len(args) # 1
  THEN Returned("help: task-tracker delete", s, f, << >>, "", FALSE, FALSE)
  ELSE IF Atoi(args[1]).err
  THEN Returned("invalid id", s, f, << >>, "", FALSE, FALSE)
  ELSE LET r == Delete(s, f, Atoi(args[1]).val, w) IN
       Returned(IoErr(r), r.tasks, r.file, << >>, "Delete", ~r.panic, r.panic)

markInProgress(args, s, f, nows, w) ==
  IF Len(args) # 1
  THEN Returned("help: task-tracker mark-in-progress", s, f, << >>, "", FALSE, FALSE)
  ELSE IF Atoi(args[1]).err
  THEN Returned("invalid id", s, f, << >>, "", FALSE, FALSE)
  ELSE LET r == MarkInProgress(s, f, Atoi(args[1]).val, nows, w) IN
       Returned(IoErr(r), r.tasks, r.file, << >>, "MarkInProgress", TRUE, FALSE)

markDone(args, s, f, nows, w) ==
  IF Len(args) # 1
  THEN Returned("help: task-tracker mark-done", s, f, << >>, "", FALSE, FALSE)
  ELSE IF Atoi(args[1]).err
  THEN Returned("invalid id", s, f, << >>, "", FALSE, FALSE)
  ELSE LET r == MarkDone(s, f, Atoi(args[1]).val, nows, w) IN
       Returned(IoErr(r), r.tasks, r.file, << >>, "MarkDone", TRUE, FALSE)

PrintTasks(listed) == [i \in DOMAIN listed.items |-> TaskLine(listed.items[i])]

list(args, s, f, nows, w) ==
  CASE Len(args) = 0 ->
         Returned("", s, f, PrintTasks(List(s, "")), "List", FALSE, FALSE)
    [] Len(args) = 1 ->
         IF args[1] \notin {"todo", "in-progress", "done"}
         THEN Returned("invalid status", s, f, << >>, "", FALSE, FALSE)
         ELSE Returned("", s, f, PrintTasks(List(s, args[1])), "List", FALSE, FALSE)
    [] OTHER -> Returned("help: task-tracker list", s, f, << >>, "", FALSE, FALSE)

\* the clock readings the command will take: two for a well-formed add, one
\* per task carrying the id for a well-formed update or mark
Readings(argv, s) ==
  LET args == IF Len(argv) = 0 THEN << >> ELSE Tail(argv) IN
  CASE Len(argv) = 0 -> 0
    [] argv[1] = "add" /\ Len(args) = 1 -> 2
    [] argv[1] = "update" /\ Len(args) = 2 /\ ~Atoi(args[1]).err ->
         Cardinality(Matches(s.items, Atoi(args[1]).val))
    [] argv[1] \in {"mark-in-progress", "mark-done"} /\ Len(args) = 1
         /\ ~Atoi(args[1]).err ->
         Cardinality(Matches(s.items, Atoi(args[1]).val))
    [] OTHER -> 0

\* main, lines 141-150: the argument check and the construction of the
\* repository.  argc is len(os.Args) - 1; the command line itself is not read
\* before line 152.
Main(p, argc, rd, w) ==
  /\ proc[p].pc \in {"idle", "exited"}
  /\ IF argc < 1
     THEN /\ proc' = [proc EXCEPT ![p] =
                [Idle EXCEPT !.pc = "exited", !.exit = 1, !.out = printUsage]]
          /\ UNCHANGED file
     ELSE LET r == newJsonTaskRepository(file, rd, w) IN
          /\ file' = r.file
          /\ proc' = [proc EXCEPT ![p] =
                IF r.err
                THEN [Idle EXCEPT !.pc = "exited", !.exit = 1,
                                  !.err = "initializing repository",
                                  !.read = r.read, !.wrote = r.wrote]
                ELSE [Idle EXCEPT !.pc = "dispatch", !.tasks = r.tasks,
                                  !.read = r.read, !.wrote = r.wrote]]
  /\ UNCHANGED <<clock, tasks, repo, last>>

\* main, lines 152-171: the switch on the command; the default branch prints
\* the usage text and calls os.Exit(1) itself
Handle(argv, s, f, nows, w) ==
  LET args == Tail(argv) IN
  CASE argv[1] = "add" -> add(args, s, f, nows, w)
    [] argv[1] = "update" -> update(args, s, f, nows, w)
    [] argv[1] = "delete" -> delete(args, s, f, nows, w)
    [] argv[1] = "mark-in-progress" -> markInProgress(args, s, f, nows, w)
    [] argv[1] = "mark-done" -> markDone(args, s, f, nows, w)
    [] argv[1] = "list" -> list(args, s, f, nows, w)
    [] OTHER -> [Returned("", s, f, printUsage, "", FALSE, FALSE)
                   EXCEPT !.exit1 = TRUE]

\* the exit status: 2 when the Go runtime ends the process on a panic, 1 from
\* os.Exit(1), 0 when main returns
ExitCode(h) == IF h.panic THEN 2 ELSE IF h.exit1 \/ h.err # "" THEN 1 ELSE 0

\* main, lines 152-177: dispatch, the handler, and the exit.  add is not
\* offered once the list holds MaxLen tasks.  A write of the file by p is
\* recorded in every other process that has loaded and not yet exited.
Dispatch(p, argv, nows, w) ==
  /\ proc[p].pc = "dispatch"
  /\ argv[1] = "add" => Len(proc[p].tasks.items) < MaxLen
  /\ LET h == Handle(argv, proc[p].tasks, file, nows, w) IN
     /\ file' = h.file
     /\ proc' = [q \in DOMAIN proc |->
           IF q = p
           THEN [proc[p] EXCEPT !.pc = "exited", !.tasks = h.tasks,
                                !.exit = ExitCode(h), !.err = h.err,
                                !.out = h.out, !.called = h.called,
                                !.wrote = @ \/ h.wrote]
           ELSE [proc[q] EXCEPT !.overlapped =
                                  @ \/ (proc[q].pc = "dispatch" /\ h.wrote)]]
  /\ clock' = LatestReading(clock, nows)
  /\ UNCHANGED <<tasks, repo, last>>

InitCLI ==
  /\ file \in {Absent, JsonArray(<< >>), JsonNull, Garbage}
  /\ clock = 0
  /\ tasks = NilSlice
  /\ repo = "none"
  /\ last = NoOp
  /\ proc = [p \in Procs |-> Idle]

NextCLI ==
  \E p \in Procs :
    \/ \E argc \in 0..1, rd \in ReadOutcomes, w \in WriteOutcomes :
         Main(p, argc, rd, w)
    \/ \E argv \in Argvs \ {<< >>}, w \in WriteOutcomes :
         \E nows \in NowSeqs(clock, Readings(argv, proc[p].tasks)) :
           Dispatch(p, argv, nows, w)

SpecCLI == InitCLI /\ [][NextCLI]_vars

\* ------------------------------- SpecRace: two invocations on one file
\* Two processes run main() on the same tasks.json with no lock between
\* them: each step of a process is the construction (load) or the command
\* (with its save), and the steps of the two interleave freely.  Reads and
\* writes succeed.
RaceProcs == {"p1", "p2"}

RaceArgvs ==
  {<<"add", d>> : d \in Descriptions}
  \cup {<<"delete", "1">>, <<"list">>}

InitRace ==
  /\ file = Absent
  /\ clock = 0
  /\ tasks = NilSlice
  /\ repo = "none"
  /\ last = NoOp
  /\ proc = [p \in RaceProcs |-> Idle]

NextRace ==
  \E p \in RaceProcs :
    \/ Main(p, 1, "ok", "ok")
    \/ \E argv \in RaceArgvs :
         \E nows \in NowSeqs(clock, Readings(argv, proc[p].tasks)) :
           Dispatch(p, argv, nows, "ok")

SpecRace == InitRace /\ [][NextRace]_vars

\* ------------------- SpecSeq: invocations in sequence, and one list
\* Successful invocations of main() one after the other on a file that is
\* absent at first (each a fresh process: construct, run the command, exit
\* 0; reads and writes succeed), and beside them one repository list, tasks,
\* that lives on and receives the same repository call with the same clock
\* readings.
Invocation(p, argv, nows) ==
  LET r == newJsonTaskRepository(file, "ok", "ok")
      h == Handle(argv, r.tasks, r.file, nows, "ok")
      one == Handle(argv, tasks, r.file, nows, "ok")
  IN /\ ~r.err
     /\ argv[1] = "add" => Len(r.tasks.items) < MaxLen
     /\ ExitCode(h) = 0
     /\ ExitCode(one) = 0
     /\ file' = h.file
     /\ tasks' = one.tasks
     /\ proc' = [proc EXCEPT ![p] =
           [Idle EXCEPT !.pc = "exited", !.tasks = h.tasks, !.out = h.out,
                        !.called = h.called, !.read = TRUE,
                        !.wrote = r.wrote \/ h.wrote]]
     /\ clock' = LatestReading(clock, nows)
     /\ UNCHANGED <<repo, last>>

InitSeq ==
  /\ file = Absent
  /\ clock = 0
  /\ tasks = NilSlice
  /\ repo = "none"
  /\ last = NoOp
  /\ proc = [p \in Procs |-> Idle]

NextSeq ==
  \E p \in Procs, argv \in Argvs \ {<< >>} :
    \E nows \in NowSeqs(clock, Readings(argv, tasks)) :
      Invocation(p, argv, nows)

SpecSeq == InitSeq /\ [][NextSeq]_vars

\* ================================================================ claims
\* the list held by a file, as a fresh load would see it
Persisted(f) == Unmarshal(f).tasks.items

\* ---------------------------------------------------------------- C1
\* C1: in every state reached by Add, Update, Delete, MarkInProgress and
\* MarkDone from an empty store, every task's id is a positive integer and
\* no two tasks of the list carry the same id.
C1_IdsPositiveAndUnique ==
  \A i, j \in DOMAIN tasks.items :
    /\ tasks.items[i].id >= 1
    /\ (i # j => tasks.items[i].id # tasks.items[j].id)

\* ---------------------------------------------------------------- C2
\* C2: a successful Add(description) appends exactly one task at the end of
\* the list, with id = (length before the call) + 1, status todo and the
\* given description, leaves every earlier task unchanged and in place, and
\* returns that task; the n-th Add of a run of Adds alone on an empty list
\* assigns id n.
C2_AddAppendsCountPlusOne ==
  [][\A d \in Descriptions, t1 \in 0..MaxClock, t2 \in 0..MaxClock,
        w \in WriteOutcomes :
       (OpAdd(d, t1, t2, w) /\ ~last'.err) =>
         LET n == Len(tasks.items)
             new == tasks'.items[n + 1]
         IN /\ Len(tasks'.items) = n + 1
            /\ SubSeq(tasks'.items, 1, n) = tasks.items
            /\ new.id = n + 1
            /\ new.status = "todo"
            /\ new.description = d
            /\ last'.ret = Slice(<<new>>)
            /\ (last'.onlyAdds => new.id = last'.nAdds)]_vars

\* the second Add of a run of Adds alone has returned without error
C2_Witness ==
  /\ last.op = "Add"
  /\ ~last.err
  /\ last.onlyAdds
  /\ last.nAdds = 2
  /\ Len(tasks.items) = 2

\* ---------------------------------------------------------------- C3
\* C3: after every repository operation that completes without error
\* (construction included) the content of the task file deserializes to
\* exactly the in-memory task list: same tasks, same fields, same order.
C3_FileHoldsMemory ==
  (repo = "ready") =>
    /\ ~Unmarshal(file).err
    /\ Persisted(file) = tasks.items

\* ---------------------------------------------------------------- C4
\* items with the element at position k left out
Without(items, k) ==
  [i \in 1..(Len(items) - 1) |-> IF i < k THEN items[i] ELSE items[i + 1]]

\* C4: for every id that occurs in the list, Delete(id) returns without
\* error and leaves the list with exactly one element carrying that id
\* removed, the others unchanged and in their order, and that list is what
\* is persisted.
C4_DeleteRemovesExactlyOne ==
  [][\A id \in Ids :
       (OpDelete(id, "ok") /\ Matches(tasks.items, id) # {}) =>
         /\ ~last'.panic
         /\ ~last'.err
         /\ \E k \in Matches(tasks.items, id) :
              tasks'.items = Without(tasks.items, k)
         /\ file' = Marshal(tasks')]_vars

\* ---------------------------------------------------------------- C5
\* the positions at which two lists of the same length differ
Changed(before, after) == {i \in DOMAIN before : before[i] # after[i]}

\* C5: one call of Update, MarkInProgress, MarkDone or Delete changes (or
\* removes) at most one task of the list and leaves all others as they were.
C5_SingleTaskScoped ==
  [][/\ \A id \in Ids, d \in Descriptions, w \in WriteOutcomes :
          \A nows \in NowSeqs(clock, Cardinality(Matches(tasks.items, id))) :
            (\/ OpUpdate(id, d, nows, w)
             \/ OpMarkInProgress(id, nows, w)
             \/ OpMarkDone(id, nows, w)) =>
              /\ Len(tasks'.items) = Len(tasks.items)
              /\ Cardinality(Changed(tasks.items, tasks'.items)) <= 1
     /\ \A id \in Ids, w \in WriteOutcomes :
          OpDelete(id, w) =>
            \/ tasks'.items = tasks.items
            \/ \E k \in DOMAIN tasks.items :
                 tasks'.items = Without(tasks.items, k)]_vars

\* ---------------------------------------------------------------- C6
\* C6: for an id no task carries, Update, Delete, MarkInProgress and
\* MarkDone return no error, leave the in-memory list unchanged and rewrite
\* the file with the content it had before the call.
C6_NoMatchRewritesSameContent ==
  [][\A id \in Ids, d \in Descriptions :
       ((\/ OpUpdate(id, d, << >>, "ok")
         \/ OpDelete(id, "ok")
         \/ OpMarkInProgress(id, << >>, "ok")
         \/ OpMarkDone(id, << >>, "ok"))
        /\ Matches(tasks.items, id) = {}) =>
         /\ ~last'.err
         /\ ~last'.panic
         /\ tasks'.items = tasks.items
         /\ file' = file]_vars

\* ------------------------------------------------------- command lines
\* the operand counts of the commands (the table of the dispatcher)
Arities(cmd) ==
  CASE cmd = "add" -> {1}
    [] cmd = "update" -> {2}
    [] cmd \in {"delete", "mark-in-progress", "mark-done"} -> {1}
    [] cmd = "list" -> {0, 1}

UnknownCommand(argv) == argv[1] \notin Commands
WrongArity(argv) ==
  argv[1] \in Commands /\ (Len(argv) - 1) \notin Arities(argv[1])
BadId(argv) ==
  /\ argv[1] \in {"update", "delete", "mark-in-progress", "mark-done"}
  /\ (Len(argv) - 1) \in Arities(argv[1])
  /\ argv[2] = NotANumber
BadStatus(argv) ==
  argv[1] = "list" /\ Len(argv) = 2 /\ argv[2] \notin Statuses

UsageErrorArgvs ==
  {a \in Argvs \ {<< >>} :
     UnknownCommand(a) \/ WrongArity(a) \/ BadId(a) \/ BadStatus(a)}

\* ---------------------------------------------------------------- C7
\* C7: an invocation that ends in a usage error (no or an unrecognized
\* command, a wrong operand count, an id that is no integer, an invalid
\* status operand of list) exits 1 and has neither read, created nor
\* written the task file.
C7_UsageErrorTouchesNoFile ==
  [][\A p \in Procs, rd \in ReadOutcomes, w \in WriteOutcomes :
       /\ Main(p, 0, rd, w) =>
            /\ proc'[p].pc = "exited" /\ proc'[p].exit = 1
            /\ ~proc'[p].read /\ ~proc'[p].wrote
       /\ \A argv \in UsageErrorArgvs :
            Dispatch(p, argv, << >>, w) =>
              /\ proc'[p].exit = 1
              /\ ~proc'[p].read /\ ~proc'[p].wrote]_vars

\* ---------------------------------------------------------------- C8
\* C8: a recognized command with a wrong number of operands, and update,
\* delete, mark-in-progress or mark-done with an id operand that is no
\* integer, reports an error, exits 1 and invokes no repository operation;
\* the task list is the same after the invocation as before it.
C8_BadOperandsInvokeNothing ==
  [][\A p \in Procs, w \in WriteOutcomes :
       \A argv \in {a \in Argvs \ {<< >>} : WrongArity(a) \/ BadId(a)} :
         Dispatch(p, argv, << >>, w) =>
           /\ proc'[p].pc = "exited"
           /\ proc'[p].exit = 1
           /\ proc'[p].err # ""
           /\ proc'[p].called = ""
           /\ proc'[p].tasks = proc[p].tasks
           /\ file' = file]_vars

\* an invocation has ended on "invalid id" with tasks in the list
C8_Witness ==
  \E p \in Procs :
    /\ proc[p].pc = "exited"
    /\ proc[p].err = "invalid id"
    /\ proc[p].exit = 1
    /\ Len(proc[p].tasks.items) > 0

\* ---------------------------------------------------------------- C9
\* C9: when the task file exists but cannot be read or does not deserialize
\* as a task list, the construction fails and the process exits 1 before any
\* handler or repository operation runs, the file's content unchanged; only
\* an absent file is made an empty store (created holding an empty list, the
\* in-memory list empty).
C9_CorruptFileFailsConstruction ==
  [][\A p \in Procs, rd \in ReadOutcomes, w \in WriteOutcomes :
       Main(p, 1, rd, w) =>
         /\ (file.kind # "absent" /\ (rd = "denied" \/ file.kind = "garbage")) =>
              /\ proc'[p].pc = "exited"
              /\ proc'[p].exit = 1
              /\ proc'[p].called = ""
              /\ file' = file
         /\ (file.kind = "absent" /\ rd = "ok" /\ w = "ok") =>
              /\ proc'[p].pc = "dispatch"
              /\ file' = JsonArray(<< >>)
              /\ proc'[p].tasks.items = << >>
         /\ (file' # file => file.kind = "absent")]_vars

\* an invocation has ended at the construction, on a file that is no JSON
C9_Witness ==
  \E p \in Procs :
    /\ proc[p].pc = "exited"
    /\ proc[p].err = "initializing repository"
    /\ proc[p].exit = 1
    /\ file.kind = "garbage"

\* ---------------------------------------------------------------- C10
\* C10: every invocation ends with exit code 0 or 1: 0 exactly when the
\* command was valid and its repository operation returned no error, 1 for
\* every error.
C10_ExitCodeZeroOrOne ==
  \A p \in Procs :
    proc[p].pc = "exited" =>
      /\ proc[p].exit \in {0, 1}
      /\ (proc[p].exit = 0 <=> (proc[p].called # "" /\ proc[p].err = ""))

\* ---------------------------------------------------------------- C11
\* C11: when the write of the file fails during Add, the add command exits 1
\* with the error and prints no success line, the in-memory list holds the
\* earlier tasks followed by the new one (no rollback), and the file has the
\* content it had before the call.
C11_FailedAddKeepsFile ==
  [][\A p \in Procs, d \in Descriptions, w \in WriteOutcomes \ {"ok"} :
       \A nows \in NowSeqs(clock, 2) :
         Dispatch(p, <<"add", d>>, nows, w) =>
           LET n == Len(proc[p].tasks.items) IN
           /\ proc'[p].exit = 1
           /\ proc'[p].err = "io"
           /\ proc'[p].out = << >>
           /\ Len(proc'[p].tasks.items) = n + 1
           /\ SubSeq(proc'[p].tasks.items, 1, n) = proc[p].tasks.items
           /\ proc'[p].tasks.items[n + 1].description = d
           /\ file' = file]_vars

\* ---------------------------------------------------------------- C12
\* C12: a command that saves writes the list of its own process, whatever
\* the file holds.  When another process has saved since this one loaded
\* (the two overlap), a successful add leaves the file with the list this
\* process loaded plus its own task: what the other process saved in between
\* is not in it.  When no other process has saved since this one loaded (no
\* overlap), the process works on the list the file holds, and a successful
\* add leaves the file with everything it held plus the new task.
C12_LastWriterWins ==
  [][\A q \in RaceProcs, argv \in RaceArgvs :
       \A nows \in NowSeqs(clock, Readings(argv, proc[q].tasks)) :
         (Dispatch(q, argv, nows, "ok") /\ proc'[q].exit = 0
            /\ proc'[q].called # "List") =>
           LET loaded == proc[q].tasks.items
               before == Persisted(file)
               after == Persisted(file')
           IN /\ file' = Marshal(proc'[q].tasks)
              /\ (~proc[q].overlapped => loaded = before)
              /\ (argv[1] = "add" =>
                    /\ Len(after) = Len(loaded) + 1
                    /\ SubSeq(after, 1, Len(loaded)) = loaded
                    /\ (~proc[q].overlapped =>
                          /\ Len(after) = Len(before) + 1
                          /\ SubSeq(after, 1, Len(before)) = before))]_vars

\* both processes loaded the empty list, both added a task and exited 0, and
\* the file holds one task: the one of the process that saved last
C12_Witness ==
  /\ proc["p1"].overlapped
  /\ \A p \in RaceProcs :
       /\ proc[p].pc = "exited"
       /\ proc[p].exit = 0
       /\ proc[p].called = "Add"
       /\ Len(proc[p].tasks.items) = 1
  /\ proc["p1"].tasks.items[1].description # proc["p2"].tasks.items[1].description
  /\ Len(Persisted(file)) = 1
  /\ Persisted(file)[1].description = ToValidUTF8(proc["p1"].tasks.items[1].description)

\* ---------------------------------------------------------------- C13
\* C13: in a sequence of successful invocations that do not overlap, begun
\* on an absent file, every invocation works on exactly the list that one
\* in-memory list holds after the same operations in the same order, and
\* prints what the command would print on that list.
C13_InvocationsRefineOneList ==
  [][\A p \in Procs, argv \in Argvs \ {<< >>} :
       \A nows \in NowSeqs(clock, Readings(argv, tasks)) :
         Invocation(p, argv, nows) =>
           /\ Persisted(file) = tasks.items
           /\ proc'[p].out = Handle(argv, tasks, file, nows, "ok").out]_vars

\* ---------------------------------------------------------------- C14
\* C14: in every state reached from an empty store, every task the file
\* holds has a status among todo, in-progress and done, and a createdAt that
\* is not later than its updatedAt (the clock readings never decrease).
C14_PersistedTasksWellFormed ==
  \A i \in DOMAIN Persisted(file) :
    /\ Persisted(file)[i].status \in Statuses
    /\ Persisted(file)[i].createdAt <= Persisted(file)[i].updatedAt

\* the file holds a task marked done at a later clock reading than the one
\* it was created at, beside a task still todo
C14_Witness ==
  /\ Len(Persisted(file)) = 2
  /\ Persisted(file)[1].status = "done"
  /\ Persisted(file)[1].createdAt < Persisted(file)[1].updatedAt
  /\ Persisted(file)[2].status = "todo"

\* ---------------------------------------------------------------- C15
\* the k-th smallest member of a set of positions
Kth(P, k) == CHOOSE i \in P : Cardinality({j \in P : j <= i}) = k

\* the tasks of items whose status is st, in the order they have in items
WithStatus(items, st) ==
  LET P == {i \in DOMAIN items : items[i].status = st}
  IN [k \in 1..Cardinality(P) |-> items[Kth(P, k)]]

\* C15: List("") returns the whole list; List(s) for a status s returns
\* exactly the tasks whose status is s, in list order, and an empty sequence
\* without error when there is none; List changes neither the in-memory list
\* nor the file, and a List("") that follows a List("") returns the same
\* sequence.
C15_ListFiltersInOrder ==
  [][\A st \in Statuses \cup {""} :
       OpList(st) =>
         /\ ~last'.err
         /\ (st = "" => last'.ret = tasks)
         /\ (st # "" => last'.ret.items = WithStatus(tasks.items, st))
         /\ tasks' = tasks
         /\ file' = file
         /\ ((st = "" /\ last.op = "List" /\ last.ret = tasks) =>
               last'.ret = last.ret)]_vars

\* List has returned one task of a list of two
C15_Witness ==
  /\ last.op = "List"
  /\ Len(tasks.items) = 2
  /\ Len(last.ret.items) = 1
  /\ last.ret.items[1] = tasks.items[2]

\* ---------------------------------------------------------------- C16
\* the ids of a list, in list order
IdsOf(items) == [i \in DOMAIN items |-> items[i].id]

\* C16: on a store constructed empty, Delete(2) after three Adds returns
\* without error and leaves the tasks 1 and 3; the Add that follows returns
\* without error a task with id 3, and the list then holds the ids 1, 3, 3.
C16_AddAfterDeleteCollides ==
  [][/\ (last.op = "Add" /\ last.onlyAdds /\ last.nAdds = 3
           /\ OpDelete(2, "ok")) =>
          /\ ~last'.err
          /\ ~last'.panic
          /\ IdsOf(tasks.items) = <<1, 2, 3>>
          /\ IdsOf(tasks'.items) = <<1, 3>>
     /\ \A t1 \in 0..MaxClock, t2 \in 0..MaxClock :
          (last.op = "Delete" /\ IdsOf(tasks.items) = <<1, 3>>
             /\ OpAddLong(ValidDesc, t1, t2, "ok")) =>
            /\ ~last'.err
            /\ last'.ret.items[1].id = 3
            /\ IdsOf(tasks'.items) = <<1, 3, 3>>
            /\ Cardinality(Matches(tasks'.items, 3)) = 2]_vars

\* the Add after the Delete has returned: two tasks carry id 3
C16_Witness ==
  /\ last.op = "Add"
  /\ ~last.err
  /\ repo = "ready"
  /\ IdsOf(tasks.items) = <<1, 3, 3>>
  /\ IdsOf(Persisted(file)) = <<1, 3, 3>>

\* ---------------------------------------------------------------- C17
\* C17: for every list a repository holds (the empty list of a store just
\* constructed included), saving it and then loading the file returns
\* without error a list equal to the saved one, task by task, field by field
\* and in the same order.
C17_SaveLoadRoundTrip ==
  (repo = "ready") =>
    LET saved == save(tasks, file, "ok")
        loaded == load(saved.file, "ok", "ok")
    IN /\ ~saved.err
       /\ ~loaded.err
       /\ loaded.tasks.items = tasks.items

\* ---------------------------------------------------------------- C18
\* position by position, after has the id and createdAt of before
SameIdentity(before, after) ==
  /\ Len(after) = Len(before)
  /\ \A i \in DOMAIN before :
       /\ after[i].id = before[i].id
       /\ after[i].createdAt = before[i].createdAt

\* C18: no operation changes the id or the createdAt of a task that stays in
\* the list.  Update keeps the length and the order and changes nothing but
\* description and updatedAt of a task; MarkInProgress and MarkDone keep the
\* length and the order and change nothing but status and updatedAt; Add
\* leaves the earlier tasks as they were; every task Delete leaves in the
\* list is a task that was in it; List changes nothing.
\* (last'.op names the operation whose call is the step.)
C18_IdAndCreatedAtKept ==
  [][/\ (last'.op = "Update") =>
          /\ SameIdentity(tasks.items, tasks'.items)
          /\ \A i \in DOMAIN tasks.items :
               tasks'.items[i].status = tasks.items[i].status
     /\ (last'.op \in {"MarkInProgress", "MarkDone"}) =>
          /\ SameIdentity(tasks.items, tasks'.items)
          /\ \A i \in DOMAIN tasks.items :
               tasks'.items[i].description = tasks.items[i].description
     /\ (last'.op = "Add") =>
          SubSeq(tasks'.items, 1, Len(tasks.items)) = tasks.items
     /\ (last'.op = "Delete") =>
          \A j \in DOMAIN tasks'.items :
            \E i \in DOMAIN tasks.items : tasks'.items[j] = tasks.items[i]
     /\ (last'.op = "List") => tasks' = tasks]_vars

\* Update has rewritten a task at a later clock reading than its creation,
\* beside a task it left alone
C18_Witness ==
  /\ last.op = "Update"
  /\ last.hits = 1
  /\ Len(tasks.items) = 2
  /\ tasks.items[1].description # tasks.items[2].description
  /\ \E i \in DOMAIN tasks.items :
       tasks.items[i].createdAt < tasks.items[i].updatedAt

\* ---------------------------------------------------------------- C19
\* C19: MarkInProgress and MarkDone give every task carrying the id the
\* target status, whatever status it had; no call of Update, MarkInProgress,
\* MarkDone, Delete, List or Add makes a task of the list todo that was not
\* todo before the call, so a task that has been marked is never todo again
\* and a task is todo only while it has not been marked since its Add.
\* (last'.op names the operation whose call is the step.)
C19_NeverBackToTodo ==
  [][/\ (last'.op \in {"MarkInProgress", "MarkDone"}) =>
          \A id \in Ids, w \in WriteOutcomes :
            \A nows \in NowSeqs(clock, Cardinality(Matches(tasks.items, id))) :
              /\ OpMarkInProgress(id, nows, w) =>
                   \A i \in Matches(tasks.items, id) :
                     tasks'.items[i].status = "in-progress"
              /\ OpMarkDone(id, nows, w) =>
                   \A i \in Matches(tasks.items, id) :
                     tasks'.items[i].status = "done"
     /\ (last'.op \in {"Update", "MarkInProgress", "MarkDone", "List"}) =>
          /\ Len(tasks'.items) = Len(tasks.items)
          /\ \A i \in DOMAIN tasks.items :
               tasks'.items[i].status = "todo" => tasks.items[i].status = "todo"
     /\ (last'.op = "Add") =>
          /\ Len(tasks'.items) = Len(tasks.items) + 1
          /\ \A i \in DOMAIN tasks.items :
               tasks'.items[i].status = tasks.items[i].status
          /\ tasks'.items[Len(tasks'.items)].status = "todo"
     /\ (last'.op = "Delete") =>
          \A j \in DOMAIN tasks'.items :
            \E i \in DOMAIN tasks.items :
              /\ tasks'.items[j].id = tasks.items[i].id
              /\ tasks'.items[j].createdAt = tasks.items[i].createdAt
              /\ tasks'.items[j].status = tasks.items[i].status]_vars

\* MarkInProgress has acted on a task that was done: the write failed at
\* the open, so the file still holds the task as it was before the call
C19_Witness ==
  /\ last.op = "MarkInProgress"
  /\ last.err
  /\ last.hits = 1
  /\ Len(tasks.items) = 1
  /\ Len(Persisted(file)) = 1
  /\ Persisted(file)[1].id = tasks.items[1].id
  /\ Persisted(file)[1].status = "done"
  /\ tasks.items[1].status = "in-progress"

====
